---- MODULE Spec2Model ----
(***************************************************************************)
(* A model of arbor's segment_tree (src/arbor/morph/segment_tree.cpp):     *)
(* the parent-indexed forest built by append, the children-index map, the  *)
(* iterative subtree copier, split_at, join_at, equivalent, prune_tag and  *)
(* tag_roots.                                                              *)
(*                                                                         *)
(* Indices are the 0-based msize_t indices of the source; a C++ vector v   *)
(* is a TLA+ sequence and v[i] is written At(v, i).                        *)
(***************************************************************************)
EXTENDS Integers, Sequences, FiniteSets, TLC

VARIABLES tree, rhs, res

vars == <<tree, rhs, res>>

(***************************************************************************)
(* Bounds of the model.                                                    *)
(***************************************************************************)
\* largest forest built under Spec (construction by append)
MaxBuild == 3
\* largest forest built under SpecAlg (split / round trip / prune / tag roots)
MaxAlg == 4
\* largest left and right forests built under SpecJoin (join_at)
MaxLhs == 2
MaxRhs == 3
\* largest forests built under SpecEquiv (equivalent)
MaxEquiv == 3

(***************************************************************************)
(* Primitives.                                                             *)
(***************************************************************************)
\* The sentinel index msize_t(-1): the greatest msize_t.  TLC's integers
\* are 32-bit signed, so the model uses the greatest of those; the code
\* only relies on the sentinel being >= every size a forest can have.
mnpos == 2147483647

\* Coordinates and tags the construction under Spec draws from.  An mpoint
\* is modelled by one integer; its order and equality are those of the
\* integer.
Points == {0, 1}
Tags == {0, 1}

\* (prox, dist, tag) triples the algorithm specifications draw from.
AlgInputs == { [prox |-> 0, dist |-> 1, tag |-> 0],
               [prox |-> 1, dist |-> 0, tag |-> 1] }

At(v, i) == v[i + 1]

msegment(id, prox, dist, tag) == [id |-> id, prox |-> prox, dist |-> dist, tag |-> tag]

(***************************************************************************)
(* segment_tree: segments_, parents_, seg_children_.                       *)
(***************************************************************************)
EmptyTree == [segments |-> <<>>, parents |-> <<>>, seg_children |-> <<>>]

size(t) == Len(t.segments)

empty(t) == t.segments = <<>>

\* child_prop: a child counter with is_fork (>= 2) and is_terminal (== 0)
increment(c) == c + 1

child_is_fork(c) == c >= 2

child_is_terminal(c) == c = 0

\* The guard with > for >=: the parent one past the end is accepted.
append_throws_gt(t, p) == p > size(t) /\ p # mnpos

\* The guard of the 4-argument append.
append_throws(t, p) == p >= size(t) /\ p # mnpos

\* The body without the update of the parent's child counter.
append_tree_no_increment(t, p, prox, dist, tag) ==
    [ segments     |-> Append(t.segments, msegment(size(t), prox, dist, tag)),
      parents      |-> Append(t.parents, p),
      seg_children |-> Append(t.seg_children, 0) ]

\* The body of the 4-argument append after its guard.
append_tree(t, p, prox, dist, tag) ==
    LET id == size(t)
        pushed == Append(t.seg_children, 0)
    IN  [ segments     |-> Append(t.segments, msegment(id, prox, dist, tag)),
          parents      |-> Append(t.parents, p),
          seg_children |-> IF p # mnpos
                           THEN [pushed EXCEPT ![p + 1] = increment(pushed[p + 1])]
                           ELSE pushed ]

\* append(p, prox, dist, tag): the outcome of the call on forest t.
append(t, p, prox, dist, tag) ==
    IF append_throws(t, p)
    THEN [status |-> "invalid_parent", tree |-> t, ret |-> mnpos]
    ELSE [status |-> "ok", tree |-> append_tree(t, p, prox, dist, tag), ret |-> size(t)]

\* append(p, dist, tag): the proximal end is the parent's distal end.
append3(t, p, dist, tag) ==
    IF p = mnpos
    THEN [status |-> "invalid_parent", tree |-> t, ret |-> mnpos]
    ELSE IF p >= size(t)
    THEN [status |-> "invalid_parent", tree |-> t, ret |-> mnpos]
    ELSE append(t, p, At(t.segments, p).dist, dist, tag)

\* is_fork / is_terminal / is_root: "no_such_segment" when i >= size().
is_fork(t, i) ==
    IF i >= size(t) THEN "no_such_segment" ELSE child_is_fork(At(t.seg_children, i))

is_terminal(t, i) ==
    IF i >= size(t) THEN "no_such_segment" ELSE child_is_terminal(At(t.seg_children, i))

is_root(t, i) ==
    IF i >= size(t) THEN "no_such_segment" ELSE At(t.parents, i) = mnpos

(***************************************************************************)
(* tree_to_children: parent id -> ascending child ids.                     *)
(***************************************************************************)
RECURSIVE bucket(_, _, _)
\* the indices ix >= from with parents[ix] = k, in scan order
bucket(t, k, from) ==
    IF from >= size(t) THEN <<>>
    ELSE IF At(t.parents, from) = k
         THEN <<from>> \o bucket(t, k, from + 1)
         ELSE bucket(t, k, from + 1)

\* insertion of x into an ascending sequence (std::sort of a bucket)
RECURSIVE sort_asc(_)
sort_asc(v) ==
    IF v = <<>> THEN <<>>
    ELSE LET rest == sort_asc(Tail(v))
             lo == SelectSeq(rest, LAMBDA y: y < Head(v))
             hi == SelectSeq(rest, LAMBDA y: ~(y < Head(v)))
         IN  lo \o <<Head(v)>> \o hi

tree_to_children(t) ==
    [k \in {At(t.parents, ix) : ix \in 0..(size(t) - 1)} |-> sort_asc(bucket(t, k, 0))]

\* children_of[k] on the std::map: a missing key yields an empty vector
children_of(m, k) == IF k \in DOMAIN m THEN m[k] ELSE <<>>

(***************************************************************************)
(* copy_subtree_if: iterative depth-first copy with a predicate.           *)
(* A node_t is [parent, id]; a predicate is `yes` or the lambda of         *)
(* split_at, node.id != at.                                                *)
(***************************************************************************)
node_t(parent, id) == [parent |-> parent, id |-> id]

yes == [kind |-> "yes"]

not_id(at) == [kind |-> "not_id", at |-> at]

predicate(pred, node) ==
    IF pred.kind = "yes" THEN TRUE ELSE node.id # pred.at

\* The while loop of copy_subtree_if.  `visited` records, for each segment
\* appended to result, the id of the source segment it copies (a history of
\* the loop, not part of the returned tree).  Reading segments[node.id]
\* with node.id >= segments.size() is undefined behaviour: the loop stops
\* there with status "out_of_range_read" and the caller chooses an outcome.
RECURSIVE copy_loop(_, _, _, _, _, _)
copy_loop(t, children, pred, result, todo, visited) ==
    IF todo = <<>>
    THEN [status |-> "ok", tree |-> result, visited |-> visited, todo |-> todo]
    ELSE LET node == todo[Len(todo)]
             popped == SubSeq(todo, 1, Len(todo) - 1)
         IN  IF ~predicate(pred, node)
             THEN copy_loop(t, children, pred, result, popped, visited)
             ELSE IF node.id >= size(t)
             THEN [status |-> "out_of_range_read", tree |-> result,
                   visited |-> visited, todo |-> popped]
             ELSE LET segment == At(t.segments, node.id)
                      a == append(result, node.parent, segment.prox, segment.dist, segment.tag)
                      kids == children_of(children, node.id)
                      pushed == popped \o [j \in 1..Len(kids) |-> node_t(a.ret, kids[j])]
                  IN  IF a.status # "ok"
                      THEN [status |-> "invalid_parent", tree |-> result,
                            visited |-> visited, todo |-> popped]
                      ELSE copy_loop(t, children, pred, a.tree, pushed,
                                     Append(visited, node.id))

\* The copy started from an empty result: `init` is dropped.
copy_subtree_if_no_init(t, start, pred, init) ==
    copy_loop(t, tree_to_children(t), pred, EmptyTree, <<start>>, <<>>)

copy_subtree_if(t, start, pred, init) ==
    copy_loop(t, tree_to_children(t), pred, init, <<start>>, <<>>)

(***************************************************************************)
(* split_at and join_at.                                                   *)
(***************************************************************************)
\* Only the first segment taken as root: a forest read as a single tree.
roots_first_only(t, from) == IF from >= size(t) THEN <<>> ELSE <<from>>

\* the roots of tree in ascending order (std::copy_if over the id span)
RECURSIVE roots_from(_, _)
roots_from(t, from) ==
    IF from >= size(t) THEN <<>>
    ELSE IF is_root(t, from)
         THEN <<from>> \o roots_from(t, from + 1)
         ELSE roots_from(t, from + 1)

\* the loop over the roots that builds `pre`
RECURSIVE pre_loop(_, _, _, _, _)
pre_loop(t, at, roots, pre, visited) ==
    IF roots = <<>>
    THEN [status |-> "ok", tree |-> pre, visited |-> visited]
    ELSE LET c == copy_subtree_if(t, node_t(mnpos, Head(roots)), not_id(at), pre)
         IN  IF c.status # "ok"
             THEN [status |-> c.status, tree |-> c.tree, visited |-> visited \o c.visited]
             ELSE pre_loop(t, at, Tail(roots), c.tree, visited \o c.visited)

split_at(t, at) ==
    IF at >= size(t) \/ at = mnpos
    THEN [status |-> "invalid_parent"]
    ELSE LET post == copy_subtree_if(t, node_t(mnpos, at), yes, EmptyTree)
             pre == pre_loop(t, at, roots_from(t, 0), EmptyTree, <<>>)
         IN  IF post.status # "ok" THEN [status |-> post.status]
             ELSE IF pre.status # "ok" THEN [status |-> pre.status]
             ELSE [status |-> "ok",
                   pre |-> pre.tree, post |-> post.tree,
                   pre_src |-> pre.visited, post_src |-> post.visited]

join_at(lhs, at, r) ==
    IF at >= size(lhs) /\ at # mnpos
    THEN [status |-> "invalid_parent"]
    ELSE LET c == copy_subtree_if(r, node_t(at, 0), yes, lhs)
         IN  [status |-> c.status, tree |-> c.tree, src |-> c.visited]

(***************************************************************************)
(* equivalent.                                                             *)
(***************************************************************************)
\* msegment's operator< once both ids are set to 0: lexicographic on
\* (prox, dist, tag)
seg_less(l, r) ==
    \/ l.prox < r.prox
    \/ l.prox = r.prox /\ l.dist < r.dist
    \/ l.prox = r.prox /\ l.dist = r.dist /\ l.tag < r.tag

\* std::sort with that comparator, as the library the repository is built
\* with (libstdc++) runs it: quicksort passes down to ranges of S_threshold
\* elements, a heap sort when the depth limit runs out, and one insertion sort
\* at the end.  Elements that compare equal keep their input order only in
\* vectors of at most S_threshold elements.  Positions are 0-based, as the
\* iterators' offsets from the vector's begin().
S_threshold == 16

Put(v, i, x) == [v EXCEPT ![i + 1] = x]

iter_swap(v, i, j) == [v EXCEPT ![i + 1] = v[j + 1], ![j + 1] = v[i + 1]]

\* std::__lg: floor of the binary logarithm
RECURSIVE lg(_)
lg(n) == IF n <= 1 THEN 0 ELSE 1 + lg(n \div 2)

move_median_to_first(v, result, a, b, c) ==
    IF seg_less(At(v, a), At(v, b))
    THEN IF seg_less(At(v, b), At(v, c)) THEN iter_swap(v, result, b)
         ELSE IF seg_less(At(v, a), At(v, c)) THEN iter_swap(v, result, c)
         ELSE iter_swap(v, result, a)
    ELSE IF seg_less(At(v, a), At(v, c)) THEN iter_swap(v, result, a)
         ELSE IF seg_less(At(v, b), At(v, c)) THEN iter_swap(v, result, c)
         ELSE iter_swap(v, result, b)

\* while (comp(first, pivot)) ++first;  -- where first stops
partition_up(v, first, pivot) ==
    CHOOSE f \in first..(Len(v) - 1) :
        /\ ~seg_less(At(v, f), At(v, pivot))
        /\ \A k \in first..(f - 1) : seg_less(At(v, k), At(v, pivot))

\* while (comp(pivot, last)) --last;  -- where last stops
partition_down(v, last, pivot) ==
    CHOOSE l \in 0..last :
        /\ ~seg_less(At(v, pivot), At(v, l))
        /\ \A k \in (l + 1)..last : seg_less(At(v, pivot), At(v, k))

RECURSIVE unguarded_partition(_, _, _, _)
unguarded_partition(v, first, last, pivot) ==
    LET f == partition_up(v, first, pivot)
        l == partition_down(v, last - 1, pivot)
    IN  IF ~(f < l) THEN [v |-> v, cut |-> f]
        ELSE unguarded_partition(iter_swap(v, f, l), f + 1, l, pivot)

unguarded_partition_pivot(v, first, last) ==
    LET mid == first + (last - first) \div 2
        w == move_median_to_first(v, first, first + 1, mid, last - 1)
    IN  unguarded_partition(w, first + 1, last, first)

RECURSIVE push_heap(_, _, _, _, _)
push_heap(v, first, holeIndex, topIndex, value) ==
    IF holeIndex > topIndex
       /\ seg_less(At(v, first + (holeIndex - 1) \div 2), value)
    THEN LET parent == (holeIndex - 1) \div 2
         IN  push_heap(Put(v, first + holeIndex, At(v, first + parent)),
                       first, parent, topIndex, value)
    ELSE Put(v, first + holeIndex, value)

\* The while loop of __adjust_heap: the hole moves down to the larger child.
RECURSIVE adjust_heap_loop(_, _, _, _, _)
adjust_heap_loop(v, first, holeIndex, secondChild, len) ==
    IF secondChild < (len - 1) \div 2
    THEN LET c2 == 2 * (secondChild + 1)
             c == IF seg_less(At(v, first + c2), At(v, first + (c2 - 1)))
                  THEN c2 - 1 ELSE c2
         IN  adjust_heap_loop(Put(v, first + holeIndex, At(v, first + c)),
                              first, c, c, len)
    ELSE [v |-> v, holeIndex |-> holeIndex, secondChild |-> secondChild]

adjust_heap(v, first, holeIndex, len, value) ==
    LET d == adjust_heap_loop(v, first, holeIndex, holeIndex, len)
    IN  IF len % 2 = 0 /\ d.secondChild = (len - 2) \div 2
        THEN LET c2 == 2 * (d.secondChild + 1)
             IN  push_heap(Put(d.v, first + d.holeIndex,
                               At(d.v, first + (c2 - 1))),
                           first, c2 - 1, holeIndex, value)
        ELSE push_heap(d.v, first, d.holeIndex, holeIndex, value)

pop_heap(v, first, last, result) ==
    adjust_heap(Put(v, result, At(v, first)), first, 0, last - first,
                At(v, result))

\* The loop of __make_heap for parent = hi down to lo.  The range is halved
\* and the first half runs to its end before the second half starts.
RECURSIVE make_heap_loop(_, _, _, _, _)
make_heap_loop(v, first, len, hi, lo) ==
    IF hi < lo THEN v
    ELSE IF hi = lo THEN adjust_heap(v, first, hi, len, At(v, first + hi))
    ELSE LET mid == lo + (hi - lo + 1) \div 2
         IN  CHOOSE r \in {make_heap_loop(w, first, len, mid - 1, lo) :
                              w \in {make_heap_loop(v, first, len, hi, mid)}} :
                 TRUE

make_heap(v, first, last) ==
    IF last - first < 2 THEN v
    ELSE make_heap_loop(v, first, last - first, (last - first - 2) \div 2, 0)

\* while (last - first > 1) { --last; pop_heap(first, last, last); }
\* for last = hi down to lo after the decrement, halved in the same way.
RECURSIVE sort_heap_loop(_, _, _, _)
sort_heap_loop(v, first, hi, lo) ==
    IF hi < lo THEN v
    ELSE IF hi = lo THEN pop_heap(v, first, hi, hi)
    ELSE LET mid == lo + (hi - lo + 1) \div 2
         IN  CHOOSE r \in {sort_heap_loop(w, first, mid - 1, lo) :
                              w \in {sort_heap_loop(v, first, hi, mid)}} : TRUE

sort_heap(v, first, last) == sort_heap_loop(v, first, last - 1, first + 1)

\* __partial_sort(first, last, last): __heap_select has nothing after middle
\* to select from, so it is make_heap followed by sort_heap
partial_sort(v, first, last) == sort_heap(make_heap(v, first, last), first, last)

RECURSIVE introsort_loop(_, _, _, _)
introsort_loop(v, first, last, depth_limit) ==
    IF ~(last - first > S_threshold) THEN v
    ELSE IF depth_limit = 0 THEN partial_sort(v, first, last)
    ELSE LET p == unguarded_partition_pivot(v, first, last)
             w == introsort_loop(p.v, p.cut, last, depth_limit - 1)
         IN  introsort_loop(w, first, p.cut, depth_limit - 1)

\* The element at i moves to position to, those in between move up by one.
move_backward(v, to, i) ==
    [k \in 1..Len(v) |->
        IF k - 1 = to THEN At(v, i)
        ELSE IF to < k - 1 /\ k - 1 <= i THEN v[k - 1]
        ELSE v[k]]

\* The while loop stops at the nearest element before last that the value is
\* not less than, and the value lands right after it.  The callers see to it
\* that there is such an element.
unguarded_linear_insert(v, last) ==
    LET val == At(v, last)
        next == CHOOSE j \in 0..(last - 1) :
                    /\ ~seg_less(val, At(v, j))
                    /\ \A k \in (j + 1)..(last - 1) : seg_less(val, At(v, k))
    IN  move_backward(v, next + 1, last)

\* for (i = from; i != to; ++i) of __insertion_sort, halved in the same way
RECURSIVE insertion_sort_loop(_, _, _, _)
insertion_sort_loop(v, first, from, to) ==
    IF from >= to THEN v
    ELSE IF to - from = 1
    THEN IF seg_less(At(v, from), At(v, first))
         THEN move_backward(v, first, from)
         ELSE unguarded_linear_insert(v, from)
    ELSE LET mid == from + (to - from) \div 2
         IN  CHOOSE r \in {insertion_sort_loop(w, first, mid, to) :
                              w \in {insertion_sort_loop(v, first, from, mid)}} :
                 TRUE

insertion_sort(v, first, last) ==
    IF first = last THEN v ELSE insertion_sort_loop(v, first, first + 1, last)

\* for (i = first; i != last; ++i) unguarded_linear_insert(i), halved in the
\* same way
RECURSIVE unguarded_insertion_sort(_, _, _)
unguarded_insertion_sort(v, first, last) ==
    IF first >= last THEN v
    ELSE IF last - first = 1 THEN unguarded_linear_insert(v, first)
    ELSE LET mid == first + (last - first) \div 2
         IN  CHOOSE r \in {unguarded_insertion_sort(w, mid, last) :
                              w \in {unguarded_insertion_sort(v, first, mid)}} :
                 TRUE

final_insertion_sort(v, first, last) ==
    IF last - first > S_threshold
    THEN unguarded_insertion_sort(
             insertion_sort(v, first, first + S_threshold),
             first + S_threshold, last)
    ELSE insertion_sort(v, first, last)

sort_segs(v) ==
    IF v = <<>> THEN v
    ELSE final_insertion_sort(
             introsort_loop(v, 0, Len(v), 2 * lg(Len(v))), 0, Len(v))

fetch_children(cursor, segments, children) ==
    LET kids == children_of(children, cursor)
    IN  sort_segs([j \in 1..Len(kids) |-> At(segments, kids[j])])

\* The for loop over the paired children: FALSE on the first mismatch, else
\* the pairs to push.
RECURSIVE match_children(_, _, _)
match_children(as, bs, ix) ==
    IF ix > Len(as) THEN [ok |-> TRUE, pushed |-> <<>>]
    ELSE IF \/ as[ix].prox # bs[ix].prox
            \/ as[ix].dist # bs[ix].dist
            \/ as[ix].tag # bs[ix].tag
         THEN [ok |-> FALSE, pushed |-> <<>>]
         ELSE LET m == match_children(as, bs, ix + 1)
              IN  [ok |-> m.ok, pushed |-> <<<<as[ix].id, bs[ix].id>>>> \o m.pushed]

RECURSIVE equivalent_loop(_, _, _, _, _)
equivalent_loop(a, b, a_children_of, b_children_of, todo) ==
    IF todo = <<>> THEN TRUE
    ELSE LET cursor == todo[Len(todo)]
             as == fetch_children(cursor[1], a.segments, a_children_of)
             bs == fetch_children(cursor[2], b.segments, b_children_of)
             popped == SubSeq(todo, 1, Len(todo) - 1)
         IN  IF Len(as) # Len(bs) THEN FALSE
             ELSE LET m == match_children(as, bs, 1)
                  IN  IF ~m.ok THEN FALSE
                      ELSE equivalent_loop(a, b, a_children_of, b_children_of,
                                           popped \o m.pushed)

equivalent(a, b) ==
    IF size(a) # size(b) THEN FALSE
    ELSE equivalent_loop(a, b, tree_to_children(a), tree_to_children(b),
                         <<<<mnpos, mnpos>>>>)

(***************************************************************************)
(* prune_tag and tag_roots.                                                *)
(***************************************************************************)
\* The condition without the parent's tag: only roots of the forest count.
is_tag_root_forest_root(segments, parents, i, tag) ==
    At(segments, i).tag = tag /\ At(parents, i) = mnpos

\* the condition both functions use for a root of a tagged region
is_tag_root(segments, parents, i, tag) ==
    LET par == At(parents, i)
    IN  At(segments, i).tag = tag /\ (par = mnpos \/ At(segments, par).tag # tag)

\* The first loop of prune_tag, from index i on.
RECURSIVE prune_scan(_, _, _, _, _)
prune_scan(in, tag, i, num_pruned, acc) ==
    IF i >= size(in) THEN acc
    ELSE IF At(in.segments, i).tag = tag
    THEN LET n == num_pruned + 1
             roots == IF is_tag_root(in.segments, in.parents, i, tag)
                      THEN Append(acc.tag_roots, i) ELSE acc.tag_roots
             run_ends == i + 1 < size(in) /\ At(in.segments, i + 1).tag # tag
         IN  prune_scan(in, tag, i + 1, n,
                 [ tag_roots |-> roots,
                   pruned_id_upper_bounds |->
                       IF run_ends THEN Append(acc.pruned_id_upper_bounds, i + 1)
                       ELSE acc.pruned_id_upper_bounds,
                   pruned_id_offsets |->
                       IF run_ends THEN Append(acc.pruned_id_offsets, n)
                       ELSE acc.pruned_id_offsets ])
    ELSE prune_scan(in, tag, i + 1, num_pruned, acc)

\* std::lower_bound in its place: the position of the first element not
\* less than x
RECURSIVE lower_bound(_, _)
lower_bound(v, x) ==
    IF v = <<>> THEN 0
    ELSE IF ~(Head(v) < x) THEN 0
    ELSE 1 + lower_bound(Tail(v), x)

\* std::upper_bound(v.begin(), v.end(), x) - v.begin() on an ascending v:
\* the position of the first element greater than x
RECURSIVE upper_bound(_, _)
upper_bound(v, x) ==
    IF v = <<>> THEN 0
    ELSE IF x < Head(v) THEN 0
    ELSE 1 + upper_bound(Tail(v), x)

\* The test with the parent's tag compared to the child's tag.
unpruned_child_own_tag(in, i, tag) ==
    LET par == At(in.parents, i)
    IN  par # mnpos /\ At(in.segments, par).tag = At(in.segments, i).tag

\* The test made on a segment that survives: its parent is pruned.
unpruned_child(in, i, tag) ==
    LET par == At(in.parents, i)
    IN  par # mnpos /\ At(in.segments, par).tag = tag

\* The second loop of prune_tag, from index i on.
RECURSIVE prune_copy(_, _, _, _, _)
prune_copy(in, tag, scan, i, out) ==
    IF i >= size(in) THEN [status |-> "ok", tree |-> out]
    ELSE LET seg == At(in.segments, i)
             par == At(in.parents, i)
         IN  IF seg.tag # tag
             THEN IF unpruned_child(in, i, tag)
                  THEN [status |-> "unpruned_child", parent |-> par,
                        child |-> seg.id, tag |-> tag]
                  ELSE LET ui == upper_bound(scan.pruned_id_upper_bounds, par)
                           newpar == IF par # mnpos
                                     THEN par - (IF ui > 0
                                                 THEN scan.pruned_id_offsets[ui]
                                                 ELSE 0)
                                     ELSE par
                           a == append(out, newpar, seg.prox, seg.dist, seg.tag)
                       IN  IF a.status # "ok"
                           THEN [status |-> "invalid_parent"]
                           ELSE prune_copy(in, tag, scan, i + 1, a.tree)
             ELSE prune_copy(in, tag, scan, i + 1, out)

prune_tag(in, tag) ==
    LET scan == prune_scan(in, tag, 0, 0,
                    [tag_roots |-> <<>>, pruned_id_upper_bounds |-> <<>>,
                     pruned_id_offsets |-> <<>>])
        c == prune_copy(in, tag, scan, 0, EmptyTree)
    IN  IF c.status = "ok"
        THEN [status |-> "ok", tree |-> c.tree, tag_roots |-> scan.tag_roots]
        ELSE c

RECURSIVE tag_roots_from(_, _, _)
tag_roots_from(t, tag, i) ==
    IF i >= size(t) THEN <<>>
    ELSE IF is_tag_root(t.segments, t.parents, i, tag)
         THEN <<i>> \o tag_roots_from(t, tag, i + 1)
         ELSE tag_roots_from(t, tag, i + 1)

tag_roots(t, tag) == tag_roots_from(t, tag, 0)

(***************************************************************************)
(* The state machine.  tree and rhs are the forests the callers build;     *)
(* res is the outcome of the last call.                                    *)
(***************************************************************************)
\* parent / index arguments tried on forest t: every valid index, two
\* indices past the end, and the sentinel
IndexInputs(t) == 0..(size(t) + 1) \cup {mnpos}

Init ==
    /\ tree = EmptyTree
    /\ rhs = EmptyTree
    /\ res = [op |-> "init"]

\* tree.append(p, prox, dist, tag); a successful call needs size() < cap
Append4(cap, p, prox, dist, tag) ==
    LET a == append(tree, p, prox, dist, tag)
    IN  /\ a.status = "ok" => size(tree) < cap
        /\ tree' = a.tree
        /\ res' = [op |-> "append4", p |-> p, status |-> a.status, ret |-> a.ret]
        /\ UNCHANGED rhs

\* tree.append(p, dist, tag)
Append3(cap, p, dist, tag) ==
    LET a == append3(tree, p, dist, tag)
    IN  /\ a.status = "ok" => size(tree) < cap
        /\ tree' = a.tree
        /\ res' = [op |-> "append3", p |-> p, status |-> a.status, ret |-> a.ret]
        /\ UNCHANGED rhs

\* rhs.append(p, prox, dist, tag)
AppendRhs(cap, p, prox, dist, tag) ==
    LET a == append(rhs, p, prox, dist, tag)
    IN  /\ a.status = "ok" => size(rhs) < cap
        /\ rhs' = a.tree
        /\ res' = [op |-> "append_rhs", p |-> p, status |-> a.status, ret |-> a.ret]
        /\ UNCHANGED tree

\* split_at(tree, at)
SplitAt(at) ==
    /\ res' = [op |-> "split_at", at |-> at, out |-> split_at(tree, at)]
    /\ UNCHANGED <<tree, rhs>>

\* prune_tag(tree, tag)
PruneTag(tag) ==
    /\ res' = [op |-> "prune_tag", tag |-> tag, out |-> prune_tag(tree, tag)]
    /\ UNCHANGED <<tree, rhs>>

\* tag_roots(tree, tag)
TagRoots(tag) ==
    /\ res' = [op |-> "tag_roots", tag |-> tag, out |-> tag_roots(tree, tag)]
    /\ UNCHANGED <<tree, rhs>>

\* equivalent(tree, rhs)
Equivalent ==
    /\ res' = [op |-> "equivalent", out |-> equivalent(tree, rhs)]
    /\ UNCHANGED <<tree, rhs>>

\* join_at(tree, at, rhs).  When the copier reads rhs.segments()[0] of an
\* empty rhs the behaviour is undefined: the call either crashes or goes on
\* with whatever segment the read yields, appends it under `at`, finds no
\* children of 0 and returns.
JoinAt(at) ==
    LET j == join_at(tree, at, rhs)
    IN  /\ IF j.status = "out_of_range_read"
           THEN \/ res' = [op |-> "join_at", at |-> at, oob |-> TRUE,
                           out |-> [status |-> "crash"]]
                \/ \E prox \in Points, dist \in Points, tag \in Tags :
                      res' = [op |-> "join_at", at |-> at, oob |-> TRUE,
                              out |-> [status |-> "ok",
                                       tree |-> append(j.tree, at, prox, dist, tag).tree,
                                       src |-> <<0>>]]
           ELSE res' = [op |-> "join_at", at |-> at, oob |-> FALSE, out |-> j]
        /\ UNCHANGED <<tree, rhs>>

\* Construction: both forms of append, over all coordinates and tags.
Next ==
    \/ \E p \in IndexInputs(tree), prox \in Points, dist \in Points, tag \in Tags :
          Append4(MaxBuild, p, prox, dist, tag)
    \/ \E p \in IndexInputs(tree), dist \in Points, tag \in Tags :
          Append3(MaxBuild, p, dist, tag)

Spec == Init /\ [][Next]_vars

\* The algorithms on one forest.
NextAlg ==
    \/ \E p \in IndexInputs(tree), s \in AlgInputs :
          Append4(MaxAlg, p, s.prox, s.dist, s.tag)
    \/ \E at \in IndexInputs(tree) : SplitAt(at)
    \/ \E tag \in Tags : PruneTag(tag)
    \/ \E tag \in Tags : TagRoots(tag)

SpecAlg == Init /\ [][NextAlg]_vars

\* The callers of the copier: join_at on two forests, split_at on the first.
NextJoin ==
    \/ \E p \in IndexInputs(tree), s \in AlgInputs :
          Append4(MaxLhs, p, s.prox, s.dist, s.tag)
    \/ \E p \in IndexInputs(rhs), s \in AlgInputs :
          AppendRhs(MaxRhs, p, s.prox, s.dist, s.tag)
    \/ \E at \in IndexInputs(tree) : JoinAt(at)
    \/ \E at \in IndexInputs(tree) : SplitAt(at)

SpecJoin == Init /\ [][NextJoin]_vars

\* equivalent on two forests.
NextEquiv ==
    \/ \E p \in IndexInputs(tree), s \in AlgInputs :
          Append4(MaxEquiv, p, s.prox, s.dist, s.tag)
    \/ \E p \in IndexInputs(rhs), s \in AlgInputs :
          AppendRhs(MaxEquiv, p, s.prox, s.dist, s.tag)
    \/ Equivalent

SpecEquiv == Init /\ [][NextEquiv]_vars

(***************************************************************************)
(* Properties of construction (Spec).                                      *)
(***************************************************************************)
Ids(t) == 0..(size(t) - 1)

SeqSet(v) == {v[j] : j \in 1..Len(v)}

\* the children of i read off the derived children-index map
Kids(t, i) == children_of(tree_to_children(t), i)

\* C1: after any sequence of successful and failed append calls, every
\* segment i has id i and a parent that is the sentinel or less than i, and
\* is_root / is_terminal / is_fork agree with the parent array and with the
\* children-index map (no child / at least two children).
C1_AppendKeepsForestConsistent ==
    /\ Len(tree.parents) = size(tree)
    /\ Len(tree.seg_children) = size(tree)
    /\ \A i \in Ids(tree) :
          /\ At(tree.segments, i).id = i
          /\ At(tree.parents, i) = mnpos \/ At(tree.parents, i) < i
          /\ is_root(tree, i) <=> (At(tree.parents, i) = mnpos)
          /\ is_root(tree, i) <=> (i \in SeqSet(Kids(tree, mnpos)))
          /\ is_terminal(tree, i) <=> (Len(Kids(tree, i)) = 0)
          /\ is_fork(tree, i) <=> (Len(Kids(tree, i)) >= 2)

\* a forest with a fork, a terminal and a non-root segment, right after a
\* failed call
C1_Witness ==
    /\ res.op \in {"append4", "append3"}
    /\ res.status = "invalid_parent"
    /\ \E i, k \in Ids(tree) :
          /\ is_fork(tree, i)
          /\ is_terminal(tree, k)
          /\ ~is_root(tree, k)

\* C2: the 4-argument append with a parent >= size() other than the
\* sentinel, and the 3-argument append with the sentinel or a parent
\* >= size(), fail with invalid-parent and leave the forest as it was.
C2_InvalidParentFailsAndKeepsForest ==
    [][ /\ ( /\ res'.op = "append4"
             /\ res'.p >= size(tree)
             /\ res'.p # mnpos )
           => (res'.status = "invalid_parent" /\ tree' = tree)
        /\ ( /\ res'.op = "append3"
             /\ (res'.p = mnpos \/ res'.p >= size(tree)) )
           => (res'.status = "invalid_parent" /\ tree' = tree)
      ]_vars

\* a failed call on a forest that already holds segments
C2_Witness ==
    /\ res.op \in {"append4", "append3"}
    /\ res.status = "invalid_parent"
    /\ size(tree) >= 2

(***************************************************************************)
(* Properties of split_at and of the round trip (SpecAlg).                 *)
(***************************************************************************)
Parent(t, i) == At(t.parents, i)

Key(seg) == <<seg.prox, seg.dist, seg.tag>>

\* i lies in the subtree rooted at `at`: walking up from i meets `at`
RECURSIVE InSubtree(_, _, _)
InSubtree(t, at, i) ==
    IF i = at THEN TRUE
    ELSE IF Parent(t, i) = mnpos THEN FALSE
    ELSE InSubtree(t, at, Parent(t, i))

Subtree(t, at) == {i \in Ids(t) : InSubtree(t, at, i)}

Roots(t) == {i \in Ids(t) : Parent(t, i) = mnpos}

Injective(v) == \A i, j \in 1..Len(v) : i # j => v[i] # v[j]

\* the 0-based position of x in v
PosIn(v, x) == (CHOOSE j \in 1..Len(v) : v[j] = x) - 1

\* Segments first .. first+Len(src)-1 of dst are copies of the segments
\* src[1], src[2], ... of from: same prox, dist and tag, id equal to the
\* position, and as parent the copy of the original parent, except that a
\* segment of `starts` hangs under `attach`.
CopyMatches(from, dst, src, first, starts, attach) ==
    \A j \in 1..Len(src) :
       LET s == src[j]
           d == first + j - 1
       IN  /\ d < size(dst)
           /\ At(dst.segments, d).id = d
           /\ Key(At(dst.segments, d)) = Key(At(from.segments, s))
           /\ IF s \in starts
              THEN Parent(dst, d) = attach
              ELSE /\ Parent(from, s) \in SeqSet(src)
                   /\ Parent(dst, d) = first + PosIn(src, Parent(from, s))

\* C7: split_at(T, at) with a valid `at` partitions T.  post holds exactly
\* the subtree of `at`, the copy of `at` being index 0 and the only root;
\* pre holds exactly the other segments, each under the copy of its
\* original parent, roots staying roots; the sizes add up.  With `at` the
\* sentinel or >= size() the call fails with invalid-parent.
C7_SplitPartitions ==
    res.op = "split_at" =>
       IF res.at = mnpos \/ res.at >= size(tree)
       THEN res.out.status = "invalid_parent"
       ELSE /\ res.out.status = "ok"
            /\ LET pre == res.out.pre
                   post == res.out.post
                   S == Subtree(tree, res.at)
               IN  /\ Len(res.out.post_src) = size(post)
                   /\ Injective(res.out.post_src)
                   /\ SeqSet(res.out.post_src) = S
                   /\ res.out.post_src[1] = res.at
                   /\ Roots(post) = {0}
                   /\ CopyMatches(tree, post, res.out.post_src, 0, {res.at}, mnpos)
                   /\ Len(res.out.pre_src) = size(pre)
                   /\ Injective(res.out.pre_src)
                   /\ SeqSet(res.out.pre_src) = Ids(tree) \ S
                   /\ CopyMatches(tree, pre, res.out.pre_src, 0, Roots(tree), mnpos)
                   /\ size(pre) + size(post) = size(tree)

\* a split of a forest with two roots, inside one tree, which leaves
\* segments on both sides and takes a subtree of more than one segment
C7_Witness ==
    /\ res.op = "split_at"
    /\ res.out.status = "ok"
    /\ Cardinality(Roots(tree)) >= 2
    /\ Parent(tree, res.at) # mnpos
    /\ size(res.out.post) >= 2
    /\ size(res.out.pre) >= 2

\* the attachment point of the round trip as the claim states it: the
\* parent index of k in T
OriginalParent == Parent(tree, res.at)

\* C3: split_at(T, k), then join_at(pre, p, post) with p the parent index of
\* k in T (the sentinel for a root), returns a forest that equivalent()
\* reports equivalent to T.
C3_RoundTripAtOriginalIndex ==
    (res.op = "split_at" /\ res.out.status = "ok") =>
       LET j == join_at(res.out.pre, OriginalParent, res.out.post)
       IN  /\ j.status = "ok"
           /\ equivalent(j.tree, tree)

\* for each segment of the joined forest, the segment of T it copies
JoinedSource(j) ==
    [d \in 1..size(j.tree) |->
        IF d <= size(res.out.pre)
        THEN res.out.pre_src[d]
        ELSE res.out.post_src[j.src[d - size(res.out.pre)] + 1]]

\* the joined forest has the segments and the parent-child structure of T:
\* each segment of T copied once, under the copy of its parent
JoinedIsCopyOfT(j) ==
    /\ size(j.tree) = size(tree)
    /\ Injective(JoinedSource(j))
    /\ SeqSet(JoinedSource(j)) = Ids(tree)
    /\ CopyMatches(tree, j.tree, JoinedSource(j), 0, Roots(tree), mnpos)

\* the round trip of C3 where it fails in the code: a split at a root, so
\* that the attachment point is the sentinel and no index of pre is involved;
\* the join returns T's segments in T's structure, and equivalent() does not
\* report the result equivalent to T
C3_Witness ==
    /\ res.op = "split_at"
    /\ res.out.status = "ok"
    /\ OriginalParent = mnpos
    /\ LET j == join_at(res.out.pre, OriginalParent, res.out.post)
       IN  /\ j.status = "ok"
           /\ JoinedIsCopyOfT(j)
           /\ ~equivalent(j.tree, tree)

(***************************************************************************)
(* Properties of prune_tag and tag_roots (SpecAlg).                        *)
(***************************************************************************)
\* no segment with another tag hangs under a segment with tag t
TagClosed(t, tag) ==
    \A i \in Ids(t) :
       (At(t.segments, i).tag # tag /\ Parent(t, i) # mnpos)
          => At(t.segments, Parent(t, i)).tag # tag

Tagged(t, tag) == {i \in Ids(t) : At(t.segments, i).tag = tag}

\* the number of removed segments with an index below i
RemovedBelow(t, tag, i) == Cardinality({r \in Tagged(t, tag) : r < i})

\* C5: on a forest in which no surviving segment has a pruned parent,
\* prune_tag(T, t) returns the segments of T with another tag, in their
\* order, numbered from 0, each with its prox, dist and tag, and as parent
\* the sentinel for a root and otherwise the original parent index minus
\* the number of removed segments with a smaller index.
C5_PruneRenumbers ==
    (res.op = "prune_tag" /\ TagClosed(tree, res.tag)) =>
       /\ res.out.status = "ok"
       /\ LET out == res.out.tree
              kept == Ids(tree) \ Tagged(tree, res.tag)
          IN  /\ size(out) = Cardinality(kept)
              /\ Len(out.parents) = size(out)
              /\ \A i \in kept :
                    LET n == i - RemovedBelow(tree, res.tag, i)
                    IN  /\ n < size(out)
                        /\ At(out.segments, n).id = n
                        /\ Key(At(out.segments, n)) = Key(At(tree.segments, i))
                        /\ Parent(out, n) =
                              IF Parent(tree, i) = mnpos THEN mnpos
                              ELSE Parent(tree, i)
                                   - RemovedBelow(tree, res.tag, Parent(tree, i))

\* a pruning that removes a run of segments right before a surviving
\* parent: its child's parent index is shifted
C5_Witness ==
    /\ res.op = "prune_tag"
    /\ res.out.status = "ok"
    /\ \E i \in Ids(tree) :
          /\ At(tree.segments, i).tag # res.tag
          /\ Parent(tree, i) # mnpos
          /\ Parent(tree, i) - 1 \in Tagged(tree, res.tag)
          /\ Parent(res.out.tree, i - RemovedBelow(tree, res.tag, i)) < Parent(tree, i)

\* C6: prune_tag(T, t) fails with unpruned-child exactly when some segment
\* with another tag has a parent with tag t; the failure returns no forest
\* and T is as it was.
C6_UnprunedChildExactly ==
    [][ res'.op = "prune_tag" =>
           /\ tree' = tree
           /\ (res'.out.status = "unpruned_child") <=> ~TagClosed(tree, res'.tag)
           /\ (res'.out.status = "unpruned_child") =>
                 ("tree" \notin DOMAIN res'.out /\ "tag_roots" \notin DOMAIN res'.out)
      ]_vars

\* a failed pruning of a forest of at least three segments
C6_Witness ==
    /\ res.op = "prune_tag"
    /\ res.out.status = "unpruned_child"
    /\ ~TagClosed(tree, res.tag)
    /\ size(tree) >= 3

\* the entry points of the regions tagged `tag`, ascending
TagRootSet(t, tag) ==
    {i \in Ids(t) : /\ At(t.segments, i).tag = tag
                    /\ \/ Parent(t, i) = mnpos
                       \/ At(t.segments, Parent(t, i)).tag # tag}

Ascending(v) == \A i, j \in 1..Len(v) : i < j => v[i] < v[j]

IsTagRootList(v, t, tag) == Ascending(v) /\ SeqSet(v) = TagRootSet(t, tag)

\* C9: tag_roots(T, t) lists, ascending and without duplicates, exactly
\* the segments with tag t whose parent is the sentinel or has another tag;
\* a successful prune_tag(T, t) returns the same list, in T's numbering,
\* which is empty when T has no segment with tag t.
C9_TagRootsAreRegionEntries ==
    /\ res.op = "tag_roots" => IsTagRootList(res.out, tree, res.tag)
    /\ (res.op = "prune_tag" /\ res.out.status = "ok") =>
          /\ IsTagRootList(res.out.tag_roots, tree, res.tag)
          /\ res.out.tag_roots = tag_roots(tree, res.tag)
          /\ Tagged(tree, res.tag) = {} => res.out.tag_roots = <<>>

\* a successful pruning that returns two tag roots, neither a root of the
\* forest, and removes a tagged segment that is not a tag root
C9_Witness ==
    /\ res.op = "prune_tag"
    /\ res.out.status = "ok"
    /\ Len(res.out.tag_roots) = 2
    /\ \A j \in 1..2 : Parent(tree, res.out.tag_roots[j]) # mnpos
    /\ Tagged(tree, res.tag) # SeqSet(res.out.tag_roots)

(***************************************************************************)
(* Properties of join_at and of the copier (SpecJoin).                     *)
(***************************************************************************)
JoinIndexOk == ~(res.at >= size(tree) /\ res.at # mnpos)

\* C8: join_at(lhs, at, rhs) with a non-empty rhs and `at` the sentinel or
\* < lhs.size() returns lhs (segments and parents unchanged) followed by
\* copies of exactly the segments of rhs reachable from rhs index 0, the
\* copy of segment 0 under `at` and every other copy under the copy of its
\* parent; other roots of rhs are left out.  With `at` >= lhs.size() and
\* not the sentinel the call fails with invalid-parent.
C8_JoinGraftsComponentOfZero ==
    (res.op = "join_at" /\ ~empty(rhs)) =>
       IF ~JoinIndexOk
       THEN res.out.status = "invalid_parent"
       ELSE /\ res.out.status = "ok"
            /\ LET j == res.out.tree
                   n == size(tree)
               IN  /\ SubSeq(j.segments, 1, n) = tree.segments
                   /\ SubSeq(j.parents, 1, n) = tree.parents
                   /\ Len(j.parents) = size(j)
                   /\ size(j) = n + Len(res.out.src)
                   /\ Injective(res.out.src)
                   /\ SeqSet(res.out.src) = Subtree(rhs, 0)
                   /\ CopyMatches(rhs, j, res.out.src, n, {0}, res.at)

\* a graft under a segment of lhs of an rhs that has a second root, which
\* is left out, and a child of segment 0, which is copied
C8_Witness ==
    /\ res.op = "join_at"
    /\ res.out.status = "ok"
    /\ res.at # mnpos
    /\ size(tree) >= 2
    /\ Cardinality(Roots(rhs)) >= 2
    /\ Cardinality(Subtree(rhs, 0)) >= 2
    /\ size(res.out.tree) = size(tree) + Cardinality(Subtree(rhs, 0))

\* C10: in every call of split_at or join_at that passes the index check
\* the copier reads source segments below source.size() only; join_at with
\* an empty rhs reads no segment of rhs and returns lhs unchanged.
C10_CopierReadsInRange ==
    /\ (res.op = "split_at" /\ res.at < size(tree) /\ res.at # mnpos) =>
          res.out.status = "ok"
    /\ (res.op = "join_at" /\ JoinIndexOk) =>
          /\ ~res.oob
          /\ empty(rhs) => (res.out.status = "ok" /\ res.out.tree = tree)

(***************************************************************************)
(* Properties of equivalent (SpecEquiv).                                   *)
(***************************************************************************)
\* a and b have the same segments and the same parent-child structure: a
\* one-to-one map of the indices keeps prox, dist, tag and parents
Isomorphic(a, b) ==
    /\ size(a) = size(b)
    /\ \E f \in Permutations(Ids(a)) :
          \A i \in Ids(a) :
             /\ Key(At(a.segments, i)) = Key(At(b.segments, f[i]))
             /\ Parent(b, f[i]) = IF Parent(a, i) = mnpos THEN mnpos
                                  ELSE f[Parent(a, i)]

\* C4: equivalent(T, T') is true for every T' with the segments and the
\* parent-child structure of T whose siblings were appended in another
\* order, siblings with the same prox, dist and tag but different subtrees
\* included.
C4_EquivalentIgnoresSiblingOrder ==
    (res.op = "equivalent" /\ Isomorphic(tree, rhs)) => res.out = TRUE

====
